---- MODULE Spec2Model ----
(***************************************************************************)
(* The task-tracking dashboard: the relational store with its row-level    *)
(* security policies and triggers (supabase/migrations), the client        *)
(* handlers that write to it (TaskList, SectorManagement) and the          *)
(* session/profile bridge (useAuth).                                       *)
(***************************************************************************)
EXTENDS Integers, Sequences, FiniteSets, TLC

\* ------------------------------------------------------------------ bounds
MaxAccounts == 2    \* accounts ever registered
MaxSectors  == 3    \* sectors ever created, the two default ones included
MaxTasks    == 1    \* tasks ever created
MaxHistory  == 2    \* rows of task_history
MaxTime     == 1    \* the store's clock runs over 0..MaxTime
MaxEvents   == 2    \* session-change notifications waiting for delivery

\* ------------------------------------------------------------- the values
NULL == "null"      \* SQL NULL, JavaScript null
NoId == 0           \* no row / no user: auth.uid() of a request without session

Statuses   == {"pending", "delivered", "not_delivered"}
Roles      == {"ceo", "collaborator"}
CeoEmail   == "ceo@company.com"
Emails     == {CeoEmail, "CEO@company.com", "ana@company.com"}
Names      == {"", "Ana"}
SectorNames == {"Coordination", "HR"}
Observations == {NULL, "done early"}
ObservationTexts == {"", "done early"}
TaskTypes  == {"daily", "monthly", "temporary"}
Urgencies  == {"not_urgent", "relatively_urgent", "urgent"}
Titles     == {"Q1 Report", "Payroll"}
Descriptions == {"", "see annex"}
\* what a filled-in datetime-local input holds, and what the store returns for a timestamp with time zone
DeadlineTexts == {"2025-03-01T10:00", "2025-12-31T23:59"}
StoredDeadlineTexts == {"2025-03-01T10:00:00+00:00", "2025-12-31T23:59:00+00:00"}

AccountIds == 1..MaxAccounts
SectorIds  == 1..MaxSectors
TaskIds    == 1..MaxTasks
Times      == 0..MaxTime

VARIABLES
    accounts,       \* auth.users: id -> email
    nAccounts,      \* accounts ever created (identifiers are never reused)
    profiles,       \* public.profiles: id -> [role, full_name]
    sectors,        \* public.sectors: id -> name
    nSectors,       \* sectors ever created
    tasks,          \* public.tasks: id -> [title, description, type, sector_id,
                    \*   deadline, urgency, status, ceo_observation, updated_at]
    nTasks,         \* tasks ever created
    task_history,   \* public.task_history, in insertion order
    now,            \* the store's clock, now()
    tx,             \* the UPDATE statements on tasks in flight, by session
    lastOp,         \* the last request and its outcome
    uid,            \* the user of the session this browser holds (NoId: none)
    user,           \* useAuth: user
    profile,        \* useAuth: profile
    loading,        \* useAuth: loading
    pc,             \* useAuth: position of checkSession
    subscribed,     \* useAuth: the onAuthStateChange subscription is registered
    events,         \* notifications emitted and not yet delivered
    fetches,        \* profile fetches started by the callback, not yet resolved
    signedIn,       \* a sign-in happened after the bridge started
    cSectors,       \* Dashboard: sectors, as last fetched (their ids)
    cTasks,         \* Dashboard: tasks, as last fetched
    selectedTask,   \* TaskList: selectedTask (its id)
    observation,    \* TaskList: observation
    showCloseDialog,\* TaskList: showCloseDialog
    toast,          \* the last notification shown
    busy,           \* the loading flags of TaskForm, SectorManagement, Dashboard
    calls,          \* the store call each of TaskForm, SectorManagement awaits
    oTasks          \* Dashboard of a second browser of the ceo: tasks, as last fetched

storeVars  == <<accounts, nAccounts, profiles, sectors, nSectors, tasks, nTasks,
                task_history, now, tx>>
bridgeVars == <<user, profile, loading, pc, subscribed, events, fetches, signedIn>>
clientVars == <<cSectors, cTasks, selectedTask, observation, showCloseDialog, toast,
                busy, calls, oTasks>>
vars == <<storeVars, lastOp, uid, bridgeVars, clientVars>>

\* ------------------------------------------------------------ the helpers
\* lastOp: the request, who sent it (actor) through what (via: raw, or the
\* client handler), the row it names, an argument of it (arg: the name given
\* at registration, the status a handler asked for) and the store's answer
Op(op, via, actor, id, arg, result, rows) ==
    [op |-> op, via |-> via, actor |-> actor, id |-> id, arg |-> arg,
     result |-> result, rows |-> rows]

NoOp(via) == Op("none", via, NoId, NoId, <<>>, "none", 0)

Remove(f, k) == [x \in DOMAIN f \ {k} |-> f[x]]

SelectSeq2Mutant(h, t) == h
RECURSIVE SelectSeq2(_, _)
\* the rows of history h that do not belong to task t, order kept
SelectSeq2(h, t) ==
    IF h = <<>> THEN <<>>
    ELSE IF Head(h).task_id = t THEN SelectSeq2(Tail(h), t)
         ELSE <<Head(h)>> \o SelectSeq2(Tail(h), t)

\* the store's clock at the next write: it never runs backwards
Clock(t) == {t2 \in Times : t2 >= t /\ t2 <= t + 1}

\* an optional column of a request: <<>> when the request does not carry it
Opt(S) == {<<>>} \cup {<<x>> : x \in S}
Given(o, default) == IF o = <<>> THEN default ELSE o[1]

\* the input function of TIMESTAMP WITH TIME ZONE, the session's time zone
\* being UTC: the instant a text denotes (here a number of order), or
\* NoInstant for a text that is no timestamp
NoInstant == 0
ParseTimestamptz(text) ==
    CASE text \in {"2025-03-01T10:00", "2025-03-01T10:00:00+00:00"} -> 1
      [] text \in {"2025-12-31T23:59", "2025-12-31T23:59:00+00:00"} -> 2
      [] OTHER -> NoInstant
\* the text the store's interface returns for an instant
FormatTimestamptzMutant(i) == "2025-03-01T10:00:00+00:00"
FormatTimestamptz(i) ==
    CASE i = 1 -> "2025-03-01T10:00:00+00:00"
      [] i = 2 -> "2025-12-31T23:59:00+00:00"
      [] OTHER -> NULL

\* ------------------------------------------------- row-level security
\* EXISTS (SELECT 1 FROM profiles WHERE profiles.id = auth.uid() AND role = 'ceo')
IsCEO(a) == a \in DOMAIN profiles /\ profiles[a].role = "ceo"

SectorsSelectPolicy(a) == TRUE
SectorsManagePolicy(a) == IsCEO(a)
TasksSelectPolicy(a) == TRUE
TasksManagePolicyMutant(a) == TRUE
TasksManagePolicy(a) == IsCEO(a)
TaskHistoryInsertPolicy(a) == IsCEO(a)
\* task_history has no policy FOR UPDATE or FOR DELETE: with row-level
\* security enabled, no row is visible to such a statement
TaskHistoryModifyPolicyMutant(a) == IsCEO(a)
TaskHistoryModifyPolicy(a) == FALSE
ProfilesSelectPolicy(a, id) == a = id
ProfilesUpdatePolicyMutant(a, id) == TRUE
ProfilesUpdatePolicy(a, id) == a = id
ProfilesInsertPolicy(a, id) == a = id

\* what a SELECT of the whole table returns to actor a
SelectSectors(a) == [s \in {x \in DOMAIN sectors : SectorsSelectPolicy(a)} |-> sectors[s]]
SelectTasks(a) == [t \in {x \in DOMAIN tasks : TasksSelectPolicy(a)} |-> tasks[t]]
SelectProfiles(a) == [p \in {x \in DOMAIN profiles : ProfilesSelectPolicy(a, x)} |-> profiles[p]]
\* .from('profiles').select('*').eq('id', id).single(): the row, or no data
NoProfile == [id |-> NoId, role |-> NULL, full_name |-> NULL]
SelectProfile(a, id) ==
    IF id \in DOMAIN profiles /\ ProfilesSelectPolicy(a, id)
    THEN [id |-> id, role |-> profiles[id].role, full_name |-> profiles[id].full_name]
    ELSE NoProfile

\* ------------------------------------------------------------- triggers
\* BEFORE UPDATE ON tasks: NEW.updated_at = now()
UpdateUpdatedAtColumn(new, t) == [new EXCEPT !.updated_at = t]

\* AFTER UPDATE ON tasks: one history row when the status changed
LogTaskStatusChangeMutant(h, id, old, new) ==
    Append(h, [task_id |-> id, old_status |-> old.status,
               new_status |-> new.status, observation |-> new.ceo_observation])
LogTaskStatusChangeOldObs(h, id, old, new) ==
    IF old.status # new.status
    THEN Append(h, [task_id |-> id, old_status |-> old.status,
                    new_status |-> new.status, observation |-> old.ceo_observation])
    ELSE h
LogTaskStatusChange(h, id, old, new) ==
    IF old.status # new.status
    THEN Append(h, [task_id |-> id, old_status |-> old.status,
                    new_status |-> new.status, observation |-> new.ceo_observation])
    ELSE h

\* AFTER INSERT ON auth.users: the profile row of a new account
Lower(e) == IF e = "CEO@company.com" THEN CeoEmail ELSE e
HandleNewUserMutant(email, metaName) ==
    [role |-> IF Lower(email) = CeoEmail THEN "ceo" ELSE "collaborator",
     full_name |-> Given(metaName, "")]
HandleNewUserNoName(email, metaName) ==
    [role |-> IF email = CeoEmail THEN "ceo" ELSE "collaborator",
     full_name |-> Given(metaName, NULL)]
HandleNewUser(email, metaName) ==
    [role |-> IF email = CeoEmail THEN "ceo" ELSE "collaborator",
     full_name |-> Given(metaName, "")]

\* ON DELETE RESTRICT of tasks.sector_id
SectorReferencedMutant(s) == FALSE
SectorReferenced(s) == \E t \in DOMAIN tasks : tasks[t].sector_id = s

\* ---------------------------------------------- the store's operations
\* Each is one request of actor a, issued raw or by a client handler (via).
StoreInsertSector(via, a, name) ==
    /\ now' \in Clock(now)
    /\ IF SectorsManagePolicy(a)
       THEN /\ nSectors < MaxSectors
            /\ nSectors' = nSectors + 1
            /\ sectors' = sectors @@ (nSectors + 1 :> name)
            /\ lastOp' = Op("insert_sector", via, a, nSectors + 1, <<>>, "ok", 1)
       ELSE /\ UNCHANGED <<sectors, nSectors>>
            /\ lastOp' = Op("insert_sector", via, a, NoId, <<>>, "denied", 0)
    /\ UNCHANGED <<accounts, nAccounts, profiles, tasks, nTasks, task_history, tx>>

StoreUpdateSector(via, a, s, name) ==
    /\ now' \in Clock(now)
    /\ IF SectorsManagePolicy(a) /\ s \in DOMAIN sectors
       THEN /\ sectors' = [sectors EXCEPT ![s] = name]
            /\ lastOp' = Op("update_sector", via, a, s, <<>>, "ok", 1)
       ELSE /\ UNCHANGED sectors
            /\ lastOp' = Op("update_sector", via, a, s, <<>>, "ok", 0)
    /\ UNCHANGED <<accounts, nAccounts, profiles, nSectors, tasks, nTasks, task_history, tx>>

StoreDeleteSector(via, a, s) ==
    /\ now' \in Clock(now)
    /\ IF SectorsManagePolicy(a) /\ s \in DOMAIN sectors
       THEN IF SectorReferenced(s)
            THEN /\ UNCHANGED sectors
                 /\ lastOp' = Op("delete_sector", via, a, s, <<>>, "fk_violation", 0)
            ELSE /\ sectors' = Remove(sectors, s)
                 /\ lastOp' = Op("delete_sector", via, a, s, <<>>, "ok", 1)
       ELSE /\ UNCHANGED sectors
            /\ lastOp' = Op("delete_sector", via, a, s, <<>>, "ok", 0)
    /\ UNCHANGED <<accounts, nAccounts, profiles, nSectors, tasks, nTasks, task_history, tx>>

\* what lastOp keeps of an insert request that was applied
Sent(via, req) == IF via = "raw" THEN <<>> ELSE <<req>>

\* req: [title, description, type, sector_id, deadline, urgency, status,
\* ceo_observation, updated_at]; description, urgency and the last three are
\* optional. A sector_id that is no uuid or a deadline that is no timestamp
\* fails the statement before any row is formed.
StoreInsertTask(via, a, req) ==
    /\ now' \in Clock(now)
    /\ IF req.sector_id = NoId \/ ParseTimestamptz(req.deadline) = NoInstant
       THEN /\ UNCHANGED <<tasks, nTasks>>
            /\ lastOp' = Op("insert_task", via, a, NoId, <<>>, "invalid_input", 0)
       ELSE IF ~TasksManagePolicy(a)
       THEN /\ UNCHANGED <<tasks, nTasks>>
            /\ lastOp' = Op("insert_task", via, a, NoId, <<>>, "denied", 0)
       ELSE IF req.sector_id \notin DOMAIN sectors
       THEN /\ UNCHANGED <<tasks, nTasks>>
            /\ lastOp' = Op("insert_task", via, a, NoId, <<>>, "fk_violation", 0)
       ELSE /\ nTasks < MaxTasks
            /\ nTasks' = nTasks + 1
            /\ tasks' = tasks @@ (nTasks + 1 :>
                   [title |-> req.title,
                    description |-> Given(req.description, NULL),
                    type |-> req.type,
                    sector_id |-> req.sector_id,
                    deadline |-> ParseTimestamptz(req.deadline),
                    urgency |-> Given(req.urgency, "not_urgent"),
                    status |-> Given(req.status, "pending"),
                    ceo_observation |-> Given(req.ceo_observation, NULL),
                    updated_at |-> Given(req.updated_at, now')])
            /\ lastOp' = Op("insert_task", via, a, nTasks + 1, Sent(via, req), "ok", 1)
    /\ UNCHANGED <<accounts, nAccounts, profiles, sectors, nSectors, task_history, tx>>

\* the row an UPDATE writes: the request's columns over the old row, then
\* the BEFORE UPDATE trigger
SetColumns(old, req) ==
    [title |-> old.title, description |-> old.description, type |-> old.type,
     sector_id |-> Given(req.sector_id, old.sector_id),
     deadline |-> old.deadline, urgency |-> old.urgency,
     status |-> Given(req.status, old.status),
     ceo_observation |-> Given(req.ceo_observation, old.ceo_observation),
     updated_at |-> Given(req.updated_at, old.updated_at)]
NewTaskRow(old, req, t) == UpdateUpdatedAtColumn(SetColumns(old, req), t)

\* what lastOp keeps of an update request
Asked(via, req) == IF via = "raw" THEN <<>> ELSE req.status

\* req: [sector_id, status, ceo_observation, updated_at], all optional
StoreUpdateTask(via, a, id, req) ==
    /\ now' \in Clock(now)
    /\ IF ~(TasksManagePolicy(a) /\ id \in DOMAIN tasks)
       THEN /\ UNCHANGED <<tasks, task_history>>
            /\ lastOp' = Op("update_task", via, a, id, Asked(via, req), "ok", 0)
       ELSE LET old == tasks[id]
                new == NewTaskRow(old, req, now')
            IN  IF new.sector_id \notin DOMAIN sectors
                THEN /\ UNCHANGED <<tasks, task_history>>
                     /\ lastOp' = Op("update_task", via, a, id, Asked(via, req), "fk_violation", 0)
                ELSE IF new.status # old.status /\ ~TaskHistoryInsertPolicy(a)
                THEN /\ UNCHANGED <<tasks, task_history>>
                     /\ lastOp' = Op("update_task", via, a, id, Asked(via, req), "denied", 0)
                ELSE /\ Len(LogTaskStatusChange(task_history, id, old, new)) <= MaxHistory
                     /\ tasks' = [tasks EXCEPT ![id] = new]
                     /\ task_history' = LogTaskStatusChange(task_history, id, old, new)
                     /\ lastOp' = Op("update_task", via, a, id, Asked(via, req), "ok", 1)
    /\ UNCHANGED <<accounts, nAccounts, profiles, sectors, nSectors, nTasks, tx>>

\* ON DELETE CASCADE of task_history.task_id
StoreDeleteTask(via, a, id) ==
    /\ now' \in Clock(now)
    /\ IF TasksManagePolicy(a) /\ id \in DOMAIN tasks
       THEN /\ tasks' = Remove(tasks, id)
            /\ task_history' = SelectSeq2(task_history, id)
            /\ lastOp' = Op("delete_task", via, a, id, <<>>, "ok", 1)
       ELSE /\ UNCHANGED <<tasks, task_history>>
            /\ lastOp' = Op("delete_task", via, a, id, <<>>, "ok", 0)
    /\ UNCHANGED <<accounts, nAccounts, profiles, sectors, nSectors, nTasks, tx>>

\* INSERT INTO task_history, sent by a client; row: [task_id, old_status,
\* new_status, observation]
StoreInsertHistory(via, a, row) ==
    /\ now' \in Clock(now)
    /\ IF ~TaskHistoryInsertPolicy(a)
       THEN /\ UNCHANGED task_history
            /\ lastOp' = Op("insert_history", via, a, row.task_id, <<>>, "denied", 0)
       ELSE IF row.task_id \notin DOMAIN tasks
       THEN /\ UNCHANGED task_history
            /\ lastOp' = Op("insert_history", via, a, row.task_id, <<>>, "fk_violation", 0)
       ELSE /\ Len(task_history) < MaxHistory
            /\ task_history' = Append(task_history, row)
            /\ lastOp' = Op("insert_history", via, a, row.task_id, <<>>, "ok", 1)
    /\ UNCHANGED <<accounts, nAccounts, profiles, sectors, nSectors, tasks, nTasks, tx>>

\* UPDATE task_history SET new_status, observation on its i-th row
StoreUpdateHistory(via, a, i, status, obs) ==
    /\ now' \in Clock(now)
    /\ IF TaskHistoryModifyPolicy(a) /\ i \in 1..Len(task_history)
       THEN /\ task_history' = [task_history EXCEPT ![i].new_status = status,
                                                    ![i].observation = obs]
            /\ lastOp' = Op("update_history", via, a, i, <<>>, "ok", 1)
       ELSE /\ UNCHANGED task_history
            /\ lastOp' = Op("update_history", via, a, i, <<>>, "ok", 0)
    /\ UNCHANGED <<accounts, nAccounts, profiles, sectors, nSectors, tasks, nTasks, tx>>

\* DELETE FROM task_history of its i-th row
StoreDeleteHistory(via, a, i) ==
    /\ now' \in Clock(now)
    /\ IF TaskHistoryModifyPolicy(a) /\ i \in 1..Len(task_history)
       THEN /\ task_history' = SubSeq(task_history, 1, i - 1)
                                 \o SubSeq(task_history, i + 1, Len(task_history))
            /\ lastOp' = Op("delete_history", via, a, i, <<>>, "ok", 1)
       ELSE /\ UNCHANGED task_history
            /\ lastOp' = Op("delete_history", via, a, i, <<>>, "ok", 0)
    /\ UNCHANGED <<accounts, nAccounts, profiles, sectors, nSectors, tasks, nTasks, tx>>

\* supabase.auth.signUp / an INSERT INTO auth.users: the account and, by the
\* trigger on_auth_user_created, its profile, in one write
StoreRegister(via, email, metaName) ==
    /\ now' \in Clock(now)
    /\ nAccounts < MaxAccounts
    /\ nAccounts' = nAccounts + 1
    /\ accounts' = accounts @@ (nAccounts + 1 :> email)
    /\ profiles' = profiles @@ (nAccounts + 1 :> HandleNewUser(email, metaName))
    /\ lastOp' = Op("register", via, NoId, nAccounts + 1, metaName, "ok", 1)
    /\ UNCHANGED <<sectors, nSectors, tasks, nTasks, task_history, tx>>

\* profiles.id REFERENCES auth.users(id) ON DELETE CASCADE
StoreDeleteAccount(id) ==
    /\ now' \in Clock(now)
    /\ id \in DOMAIN accounts
    /\ accounts' = Remove(accounts, id)
    /\ profiles' = Remove(profiles, id)
    /\ lastOp' = Op("delete_account", "admin", NoId, id, <<>>, "ok", 1)
    /\ UNCHANGED <<nAccounts, sectors, nSectors, tasks, nTasks, task_history, tx>>

\* req: [role, full_name], both optional (types.ts profiles.Update)
StoreUpdateProfile(via, a, id, req) ==
    /\ now' \in Clock(now)
    /\ IF id \in DOMAIN profiles /\ ProfilesUpdatePolicy(a, id)
       THEN /\ profiles' = [profiles EXCEPT ![id] =
                   [role |-> Given(req.role, @.role),
                    full_name |-> Given(req.full_name, @.full_name)]]
            /\ lastOp' = Op("update_profile", via, a, id, <<>>, "ok", 1)
       ELSE /\ UNCHANGED profiles
            /\ lastOp' = Op("update_profile", via, a, id, <<>>, "ok", 0)
    /\ UNCHANGED <<accounts, nAccounts, sectors, nSectors, tasks, nTasks, task_history, tx>>

\* req: [id, role, full_name], the last two optional (types.ts profiles.Insert)
StoreInsertProfile(via, a, req) ==
    /\ now' \in Clock(now)
    /\ IF ~ProfilesInsertPolicy(a, req.id)
       THEN /\ UNCHANGED profiles
            /\ lastOp' = Op("insert_profile", via, a, req.id, <<>>, "denied", 0)
       ELSE IF req.id \in DOMAIN profiles
       THEN /\ UNCHANGED profiles
            /\ lastOp' = Op("insert_profile", via, a, req.id, <<>>, "unique_violation", 0)
       ELSE IF req.id \notin DOMAIN accounts
       THEN /\ UNCHANGED profiles
            /\ lastOp' = Op("insert_profile", via, a, req.id, <<>>, "fk_violation", 0)
       ELSE /\ profiles' = profiles @@ (req.id :>
                   [role |-> Given(req.role, "collaborator"),
                    full_name |-> Given(req.full_name, NULL)])
            /\ lastOp' = Op("insert_profile", via, a, req.id, <<>>, "ok", 1)
    /\ UNCHANGED <<accounts, nAccounts, sectors, nSectors, tasks, nTasks, task_history, tx>>

\* no policy of profiles grants DELETE: no row is visible to the statement
StoreDeleteProfile(via, a, id) ==
    /\ now' \in Clock(now)
    /\ lastOp' = Op("delete_profile", via, a, id, <<>>, "ok", 0)
    /\ UNCHANGED <<accounts, nAccounts, profiles, sectors, nSectors, tasks, nTasks,
                   task_history, tx>>

\* ------------------------------------------------------------ the client
\* useAuth: isCEO: profile?.role === 'ceo'
\* profile?.role: undefined when profile is null
OptionalRole(p) == IF p = NoProfile THEN "undefined" ELSE p.role
isCEOMutant == profile.role # "collaborator"
isCEO == OptionalRole(profile) = "ceo"

\* observation || null
ObsOrNull(o) == IF o = "" THEN NULL ELSE o
\* task.ceo_observation || ''
ObsOrEmpty(o) == IF o = NULL THEN "" ELSE o

EmptyFn == [x \in {} |-> NULL]

\* what the Dashboard keeps of a fetched task list
ClientTasks(tbl) ==
    [t \in DOMAIN tbl |-> [title |-> tbl[t].title,
                           type |-> tbl[t].type,
                           sector_id |-> tbl[t].sector_id,
                           deadline |-> FormatTimestamptz(tbl[t].deadline),
                           urgency |-> tbl[t].urgency,
                           status |-> tbl[t].status,
                           ceo_observation |-> tbl[t].ceo_observation]]

\* Dashboard.fetchData against the tables secs and tbl; a failed select
\* yields no data and the list becomes empty
Refetch(secs, tbl, okS, okT) ==
    /\ cSectors' = IF okS /\ SectorsSelectPolicy(uid) THEN DOMAIN secs ELSE {}
    /\ cTasks' = IF okT /\ TasksSelectPolicy(uid) THEN ClientTasks(tbl) ELSE EmptyFn

\* finally { setLoading(false) }, on the flags b
FinallyMutant(b, flag) == b
Finally(b, flag) == [b EXCEPT ![flag] = FALSE]

NoCalls == [form |-> <<>>, sector |-> <<>>]

\* Dashboard.fetchData: setLoading(true), the two selects, setLoading(false).
\* A select that fails answers { data: null, error } and the error is not
\* looked at; the catch runs only if the call throws.
FetchData ==
    /\ \/ /\ \E okS, okT \in BOOLEAN :
               /\ Refetch(sectors, tasks, okS, okT)
               /\ lastOp' = Op("select", "fetchData", uid, NoId, <<>>,
                               IF okS /\ okT THEN "ok" ELSE "network", 0)
          /\ UNCHANGED toast
       \/ /\ lastOp' = Op("select", "fetchData", uid, NoId, <<>>, "thrown", 0)
          /\ toast' = "error"
          /\ UNCHANGED <<cSectors, cTasks>>
    /\ busy' = Finally(busy, "dash")
    /\ UNCHANGED <<storeVars, uid, bridgeVars, oTasks, selectedTask, observation,
                   showCloseDialog, calls>>

\* TaskList: the close button of a task shown as pending
OpenCloseDialog ==
    /\ isCEO
    /\ \E t \in DOMAIN cTasks :
        /\ cTasks[t].status = "pending"
        /\ selectedTask' = t
        /\ observation' = ObsOrEmpty(cTasks[t].ceo_observation)
    /\ showCloseDialog' = TRUE
    /\ lastOp' = NoOp("openCloseDialog")
    /\ UNCHANGED <<storeVars, uid, bridgeVars, oTasks, cSectors, cTasks, toast, busy, calls>>

\* the dialog's text area
SetObservation ==
    /\ showCloseDialog
    /\ \E o \in ObservationTexts : observation' = o
    /\ lastOp' = NoOp("setObservation")
    /\ UNCHANGED <<storeVars, uid, bridgeVars, oTasks, cSectors, cTasks, selectedTask,
                   showCloseDialog, toast, busy, calls>>

\* the dialog's onOpenChange
DismissDialog ==
    /\ showCloseDialog
    /\ showCloseDialog' = FALSE
    /\ lastOp' = NoOp("dismissDialog")
    /\ UNCHANGED <<storeVars, uid, bridgeVars, oTasks, cSectors, cTasks, selectedTask,
                   observation, toast, busy, calls>>

CloseRequestMutant(status) ==
    [sector_id |-> <<>>, status |-> <<"pending">>,
     ceo_observation |-> <<ObsOrNull(observation)>>, updated_at |-> <<>>]
CloseRequest(status) ==
    [sector_id |-> <<>>, status |-> <<status>>,
     ceo_observation |-> <<ObsOrNull(observation)>>, updated_at |-> <<>>]

\* what a handler does once its store call has answered without an error:
\* the success toast and onTaskUpdate / onSectorUpdated (fetchData)
Succeeded ==
    /\ toast' = "success"
    /\ \E okS, okT \in BOOLEAN : Refetch(sectors', tasks', okS, okT)
\* if (error) throw error, and the catch: the failure toast
Failed ==
    /\ toast' = "error"
    /\ UNCHANGED <<cSectors, cTasks>>

HandleCloseTask ==
    /\ showCloseDialog
    /\ \E status \in {"delivered", "not_delivered"} :
        IF selectedTask = NoId
        THEN /\ lastOp' = NoOp("handleCloseTask")
             /\ UNCHANGED <<storeVars, clientVars>>
        ELSE \/ /\ lastOp' = Op("update_task", "handleCloseTask", uid, selectedTask,
                                <<status>>, "network", 0)
                /\ Failed
                /\ UNCHANGED <<storeVars, selectedTask, observation, showCloseDialog,
                               busy>>
             \/ /\ StoreUpdateTask("handleCloseTask", uid, selectedTask,
                                   CloseRequest(status))
                /\ IF lastOp'.result = "ok"
                   THEN /\ Succeeded
                        /\ showCloseDialog' = FALSE
                        /\ selectedTask' = NoId
                        /\ observation' = ""
                        /\ busy' = Finally(busy, "dash")
                   ELSE /\ Failed
                        /\ UNCHANGED <<selectedTask, observation, showCloseDialog,
                                       busy>>
    /\ UNCHANGED <<uid, bridgeVars, oTasks, calls>>

\* TaskList.handleDeleteTask, from the delete button of a task shown as
\* pending
HandleDeleteTask ==
    /\ isCEO
    /\ \E t \in DOMAIN cTasks, confirmed \in BOOLEAN :
        /\ cTasks[t].status = "pending"
        /\ IF ~confirmed
           THEN /\ lastOp' = NoOp("handleDeleteTask")
                /\ UNCHANGED <<storeVars, clientVars>>
           ELSE \/ /\ lastOp' = Op("delete_task", "handleDeleteTask", uid, t,
                                   <<>>, "network", 0)
                   /\ Failed
                   /\ UNCHANGED <<storeVars, busy>>
                \/ /\ StoreDeleteTask("handleDeleteTask", uid, t)
                   /\ IF lastOp'.result = "ok"
                      THEN Succeeded /\ busy' = Finally(busy, "dash")
                      ELSE Failed /\ UNCHANGED busy
    /\ UNCHANGED <<uid, bridgeVars, oTasks, selectedTask, observation, showCloseDialog, calls>>

\* TaskForm: three ways of filling in the fields other than the sector, which
\* between them use every value of every field
FilledForms ==
    {f \in [title : Titles, description : Descriptions, type : TaskTypes,
            sector_id : {NoId}, deadline : DeadlineTexts, urgency : Urgencies] :
        <<f.title, f.description, f.type, f.deadline, f.urgency>> \in
            {<<"Q1 Report", "", "monthly", "2025-12-31T23:59", "urgent">>,
             <<"Payroll", "see annex", "daily", "2025-03-01T10:00", "not_urgent">>,
             <<"Payroll", "", "temporary", "2025-03-01T10:00", "relatively_urgent">>}}

\* TaskForm: formData, as the form lets it be submitted (title and deadline
\* are required inputs; sector_id is '' until a sector of the list is chosen)
FormData ==
    {[f EXCEPT !.sector_id = s] : f \in FilledForms, s \in {NoId} \cup cSectors}

\* formData.description || null
DescriptionOrNull(d) == IF d = "" THEN NULL ELSE d

SubmitRequest(fd) ==
    [title |-> fd.title, description |-> <<DescriptionOrNull(fd.description)>>,
     type |-> fd.type, sector_id |-> fd.sector_id, deadline |-> fd.deadline,
     urgency |-> <<fd.urgency>>, status |-> <<>>, ceo_observation |-> <<>>,
     updated_at |-> <<>>]

\* a handler up to its await: setLoading(true), and the request leaves
Begins(flag, call, asked) ==
    /\ ~busy[flag]
    /\ busy' = [busy EXCEPT ![flag] = TRUE]
    /\ calls' = [calls EXCEPT ![flag] = <<call>>]
    /\ lastOp' = asked
    /\ UNCHANGED <<storeVars, uid, bridgeVars, oTasks, cSectors, cTasks, selectedTask,
                   observation, showCloseDialog, toast>>

\* a handler from its await on: the store's answer, the toast, the refetch
\* on success, and finally { setLoading(false) }
Ends(flag, applied) ==
    /\ calls' = [calls EXCEPT ![flag] = <<>>]
    /\ IF applied
       THEN Succeeded /\ busy' = Finally(Finally(busy, flag), "dash")
       ELSE Failed /\ busy' = Finally(busy, flag)
    /\ UNCHANGED <<uid, bridgeVars, oTasks, selectedTask, observation, showCloseDialog>>

\* TaskForm.handleSubmit; the submit button is disabled while loading
BeginHandleSubmit ==
    /\ isCEO
    /\ nTasks < MaxTasks
    /\ \E fd \in FormData : Begins("form", fd, NoOp("begin"))

HandleSubmit ==
    /\ calls.form # <<>>
    /\ \/ /\ lastOp' = Op("insert_task", "handleSubmit", uid, NoId, <<>>, "network", 0)
          /\ UNCHANGED storeVars
       \/ StoreInsertTask("handleSubmit", uid, SubmitRequest(calls.form[1]))
    /\ Ends("form", lastOp'.result = "ok")

getSectorTaskCountMutant(s) == 0
\* SectorManagement: getSectorTaskCount
getSectorTaskCount(s) == Cardinality({t \in DOMAIN cTasks : cTasks[t].sector_id = s})

SectorCall(via, s, name) == [via |-> via, id |-> s, name |-> name]

\* SectorManagement.handleCreateSector; sectorName is a required input
BeginHandleCreateSector ==
    /\ isCEO
    /\ nSectors < MaxSectors
    /\ \E n \in SectorNames : Begins("sector", SectorCall("handleCreateSector", NoId, n), NoOp("begin"))

HandleCreateSector ==
    /\ calls.sector # <<>>
    /\ calls.sector[1].via = "handleCreateSector"
    /\ \/ /\ lastOp' = Op("insert_sector", "handleCreateSector", uid, NoId, <<>>,
                          "network", 0)
          /\ UNCHANGED storeVars
       \/ StoreInsertSector("handleCreateSector", uid, calls.sector[1].name)
    /\ Ends("sector", lastOp'.result = "ok")

\* SectorManagement.handleUpdateSector, on the sector startEdit chose
BeginHandleUpdateSector ==
    /\ isCEO
    /\ \E s \in cSectors, n \in SectorNames :
        Begins("sector", SectorCall("handleUpdateSector", s, n), NoOp("begin"))

HandleUpdateSector ==
    /\ calls.sector # <<>>
    /\ calls.sector[1].via = "handleUpdateSector"
    /\ \/ /\ lastOp' = Op("update_sector", "handleUpdateSector", uid,
                          calls.sector[1].id, <<>>, "network", 0)
          /\ UNCHANGED storeVars
       \/ StoreUpdateSector("handleUpdateSector", uid, calls.sector[1].id,
                            calls.sector[1].name)
    /\ Ends("sector", lastOp'.result = "ok")

\* the text handleDeleteSector puts in its confirm(), for a task count
ConfirmMessage(taskCount) ==
    IF taskCount > 0
    THEN [text |-> "This sector has N task(s). Are you sure", N |-> taskCount]
    ELSE [text |-> "Are you sure", N |-> 0]

\* what lastOp keeps of a confirm(): the sector, the message, the answer
Confirm(s, confirmed) ==
    Op("confirm", "confirm", uid, s, <<ConfirmMessage(getSectorTaskCount(s))>>,
       IF confirmed THEN "confirmed" ELSE "declined", 0)

\* SectorManagement.handleDeleteSector: the confirm, then as the others
BeginHandleDeleteSector ==
    /\ isCEO
    /\ \E s \in cSectors, confirmed \in BOOLEAN :
        IF confirmed
        THEN Begins("sector", SectorCall("handleDeleteSector", s, NULL),
                    Confirm(s, TRUE))
        ELSE /\ ~busy.sector
             /\ lastOp' = Confirm(s, FALSE)
             /\ UNCHANGED <<storeVars, uid, bridgeVars, clientVars>>

HandleDeleteSector ==
    /\ calls.sector # <<>>
    /\ calls.sector[1].via = "handleDeleteSector"
    /\ \/ /\ lastOp' = Op("delete_sector", "handleDeleteSector", uid,
                          calls.sector[1].id, <<>>, "network", 0)
          /\ UNCHANGED storeVars
       \/ StoreDeleteSector("handleDeleteSector", uid, calls.sector[1].id)
    /\ Ends("sector", lastOp'.result = "ok")


\* ------------------------------------ a second browser of the ceo
\* The same Dashboard and TaskList in another browser signed in as the ceo
\* (actor 1): its fetchData, and its close dialog from the close button of a
\* task its list shows as pending to the update of handleCloseTask.
firstBrowser == <<cSectors, cTasks, selectedTask, observation, showCloseDialog, toast,
                  busy, calls>>

OtherFetchData ==
    /\ \E okT \in BOOLEAN :
        oTasks' = IF okT THEN ClientTasks(SelectTasks(1)) ELSE EmptyFn
    /\ lastOp' = NoOp("otherFetchData")
    /\ UNCHANGED <<storeVars, uid, bridgeVars, firstBrowser>>

OtherCloseRequest(status, o) ==
    [sector_id |-> <<>>, status |-> <<status>>,
     ceo_observation |-> <<ObsOrNull(o)>>, updated_at |-> <<>>]

OtherHandleCloseTask ==
    /\ \E t \in DOMAIN oTasks, status \in {"delivered", "not_delivered"},
          o \in ObservationTexts :
        /\ oTasks[t].status = "pending"
        /\ StoreUpdateTask("otherHandleCloseTask", 1, t, OtherCloseRequest(status, o))
        /\ IF lastOp'.result = "ok"
           THEN \E okT \in BOOLEAN :
                    oTasks' = IF okT THEN ClientTasks(tasks') ELSE EmptyFn
           ELSE UNCHANGED oTasks
    /\ UNCHANGED <<uid, bridgeVars, firstBrowser>>

\* ------------------------------------------------------ the raw requests
\* Any actor may send any request the store's interface accepts: no session,
\* or the session of any account ever registered.
Actors == {NoId} \cup (1..nAccounts)

TaskInsertReqs ==
    [title : {"Q1 Report"}, description : {<<>>}, type : {"monthly"},
     sector_id : SectorIds, deadline : {"2025-03-01T10:00"}, urgency : {<<>>},
     status : Opt(Statuses), ceo_observation : Opt(Observations),
     updated_at : Opt(Times)]
TaskUpdateReqs ==
    [sector_id : Opt(SectorIds), status : Opt(Statuses),
     ceo_observation : Opt(Observations), updated_at : Opt(Times)]
\* an insert without status, observation or updated_at
TaskFormReqs ==
    [title : {"Q1 Report"}, description : {<<>>}, type : {"monthly"},
     sector_id : SectorIds, deadline : {"2025-03-01T10:00"}, urgency : {<<>>},
     status : {<<>>}, ceo_observation : {<<>>}, updated_at : {<<>>}]
\* an update that carries sector_id alone
TaskMoveReqs ==
    [sector_id : Opt(SectorIds), status : {<<>>}, ceo_observation : {<<>>},
     updated_at : {<<>>}]
NoColumns ==
    [sector_id |-> <<>>, status |-> <<>>, ceo_observation |-> <<>>, updated_at |-> <<>>]
ProfileUpdateReqs == [role : Opt(Roles), full_name : Opt(Names)]
ProfileInsertReqs == [id : AccountIds, role : Opt(Roles), full_name : Opt(Names)]

nonStore == <<uid, bridgeVars, clientVars>>

InsertSector ==
    \E a \in Actors, n \in SectorNames :
        StoreInsertSector("raw", a, n) /\ UNCHANGED nonStore
UpdateSector ==
    \E a \in Actors, s \in SectorIds, n \in SectorNames :
        StoreUpdateSector("raw", a, s, n) /\ UNCHANGED nonStore
DeleteSector ==
    \E a \in Actors, s \in SectorIds :
        StoreDeleteSector("raw", a, s) /\ UNCHANGED nonStore
\* (a request the policies filter out has the same outcome whatever columns
\* it carries: one such request stands for all of them)
InsertTask ==
    \E a \in Actors :
        \E req \in IF TasksManagePolicy(a) THEN TaskInsertReqs ELSE TaskFormReqs :
            StoreInsertTask("raw", a, req) /\ UNCHANGED nonStore
UpdateTask ==
    \E a \in Actors, t \in TaskIds :
        \E req \in IF TasksManagePolicy(a) /\ t \in DOMAIN tasks
                   THEN TaskUpdateReqs ELSE {NoColumns} :
            StoreUpdateTask("raw", a, t, req) /\ UNCHANGED nonStore
DeleteTask ==
    \E a \in Actors, t \in TaskIds \cup DOMAIN tasks :
        StoreDeleteTask("raw", a, t) /\ UNCHANGED nonStore
\* an update that carries status alone
TaskStatusReqs ==
    [sector_id : {<<>>}, status : Opt(Statuses), ceo_observation : {<<>>},
     updated_at : {<<>>}]
SetStatus ==
    \E a \in Actors, t \in TaskIds \cup DOMAIN tasks, req \in TaskStatusReqs :
        StoreUpdateTask("raw", a, t, req) /\ UNCHANGED nonStore
HistoryRows ==
    [task_id : TaskIds \cup DOMAIN tasks, old_status : {"pending"},
     new_status : {"delivered", "not_delivered"}, observation : {NULL}]
InsertHistory ==
    \E a \in Actors, row \in HistoryRows :
        StoreInsertHistory("raw", a, row) /\ UNCHANGED nonStore
UpdateHistory ==
    \E a \in Actors, i \in 1..MaxHistory, st \in Statuses, obs \in Observations :
        StoreUpdateHistory("raw", a, i, st, obs) /\ UNCHANGED nonStore
DeleteHistory ==
    \E a \in Actors, i \in 1..MaxHistory :
        StoreDeleteHistory("raw", a, i) /\ UNCHANGED nonStore
CreateTask ==
    \E a \in Actors, req \in TaskFormReqs :
        StoreInsertTask("raw", a, req) /\ UNCHANGED nonStore
MoveTask ==
    \E a \in Actors, t \in TaskIds, req \in TaskMoveReqs :
        StoreUpdateTask("raw", a, t, req) /\ UNCHANGED nonStore
Register ==
    \E e \in Emails, n \in Opt(Names) :
        StoreRegister("raw", e, n) /\ UNCHANGED nonStore
DeleteAccount ==
    \E id \in AccountIds :
        StoreDeleteAccount(id) /\ UNCHANGED nonStore
UpdateProfile ==
    \E a \in Actors, id \in AccountIds, req \in ProfileUpdateReqs :
        StoreUpdateProfile("raw", a, id, req) /\ UNCHANGED nonStore
InsertProfile ==
    \E a \in Actors, req \in ProfileInsertReqs :
        StoreInsertProfile("raw", a, req) /\ UNCHANGED nonStore
DeleteProfile ==
    \E a \in Actors, id \in AccountIds :
        StoreDeleteProfile("raw", a, id) /\ UNCHANGED nonStore

\* ------------------------------------ one UPDATE of tasks, step by step
\* The statement of StoreUpdateTask as the store runs it for a session: the
\* row is locked and read, the BEFORE UPDATE trigger stamps the new row,
\* the row is written, the AFTER UPDATE trigger logs, and the commit makes
\* row and log visible to the other sessions. tasks and task_history are
\* what another session reads.
Sessions == {"s1", "s2"}
Idle ==
    [step |-> "idle", actor |-> NoId, id |-> NoId,
     req |-> [sector_id |-> <<>>, status |-> <<>>, ceo_observation |-> <<>>,
              updated_at |-> <<>>],
     saw |-> <<>>, at |-> 0, old |-> <<>>, new |-> <<>>, hist |-> <<>>]
NoTxs == [s \in Sessions |-> Idle]
InFlight == {s \in Sessions : tx[s].step # "idle"}
HoldsRow(s) == tx[s].step \in {"locked", "stamped", "written", "logged"}

\* the row lock of an UPDATE: a second statement on the same row waits for
\* the first to end, and then reads the row the first one committed
RowLockFreeMutant(s) == TRUE
RowLockFree(s) == \A o \in Sessions \ {s} : ~(HoldsRow(o) /\ tx[o].id = tx[s].id)

\* a row written by a statement that has not committed is not visible to
\* other sessions
UncommittedVisibleMutant == TRUE
UncommittedVisible == FALSE

txOnly == <<accounts, nAccounts, profiles, sectors, nSectors, nTasks, uid,
            bridgeVars, clientVars>>

\* a client sends the update; saw is the status its list showed for the task
TxBegin ==
    \E s \in Sessions, a \in Actors, id \in TaskIds \cup DOMAIN tasks,
       req \in [sector_id : {<<>>}, status : Opt(Statuses),
                ceo_observation : {<<>>}, updated_at : {<<>>}] :
        /\ tx[s].step = "idle"
        /\ Len(task_history) + Cardinality(InFlight) < MaxHistory
        /\ now' \in Clock(now)
        /\ tx' = [tx EXCEPT ![s] =
               [Idle EXCEPT !.step = "sent", !.actor = a, !.id = id, !.req = req,
                            !.at = now',
                            !.saw = IF id \in DOMAIN tasks THEN <<tasks[id].status>>
                                    ELSE <<>>]]
        /\ lastOp' = NoOp("tx")
        /\ UNCHANGED <<tasks, task_history, txOnly>>

TxLock ==
    \E s \in Sessions :
        /\ tx[s].step = "sent"
        /\ RowLockFree(s)
        /\ IF TasksManagePolicy(tx[s].actor) /\ tx[s].id \in DOMAIN tasks
           THEN /\ tx' = [tx EXCEPT ![s].step = "locked",
                                    ![s].old = <<tasks[tx[s].id]>>,
                                    ![s].new = <<SetColumns(tasks[tx[s].id], tx[s].req)>>]
                /\ lastOp' = NoOp("tx")
           ELSE /\ tx' = [tx EXCEPT ![s] = Idle]
                /\ lastOp' = Op("update_task", "tx", tx[s].actor, tx[s].id,
                                tx[s].saw, "ok", 0)
        /\ UNCHANGED <<tasks, task_history, now, txOnly>>

TxBeforeTrigger ==
    \E s \in Sessions :
        /\ tx[s].step = "locked"
        /\ tx' = [tx EXCEPT ![s].step = "stamped",
                            ![s].new = <<UpdateUpdatedAtColumn(tx[s].new[1], tx[s].at)>>]
        /\ lastOp' = NoOp("tx")
        /\ UNCHANGED <<tasks, task_history, now, txOnly>>

TxWrite ==
    \E s \in Sessions :
        /\ tx[s].step = "stamped"
        /\ tx' = [tx EXCEPT ![s].step = "written"]
        /\ IF UncommittedVisible
           THEN tasks' = [tasks EXCEPT ![tx[s].id] = tx[s].new[1]]
           ELSE UNCHANGED tasks
        /\ lastOp' = NoOp("tx")
        /\ UNCHANGED <<task_history, now, txOnly>>

TxAfterTrigger ==
    \E s \in Sessions :
        /\ tx[s].step = "written"
        /\ IF tx[s].new[1].status # tx[s].old[1].status
              /\ ~TaskHistoryInsertPolicy(tx[s].actor)
           THEN /\ tx' = [tx EXCEPT ![s] = Idle]
                /\ lastOp' = Op("update_task", "tx", tx[s].actor, tx[s].id,
                                tx[s].saw, "denied", 0)
           ELSE /\ tx' = [tx EXCEPT ![s].step = "logged",
                                    ![s].hist = LogTaskStatusChange(<<>>, tx[s].id,
                                                    tx[s].old[1], tx[s].new[1])]
                /\ lastOp' = NoOp("tx")
        /\ UNCHANGED <<tasks, task_history, now, txOnly>>

TxCommit ==
    \E s \in Sessions :
        /\ tx[s].step = "logged"
        /\ tasks' = [tasks EXCEPT ![tx[s].id] = tx[s].new[1]]
        /\ task_history' = task_history \o tx[s].hist
        /\ tx' = [tx EXCEPT ![s] = Idle]
        /\ lastOp' = Op("update_task", "tx", tx[s].actor, tx[s].id, tx[s].saw, "ok", 1)
        /\ UNCHANGED <<now, txOnly>>

\* ------------------------------------------- the session/profile bridge
\* pc: where checkSession stands, the user of the session it read, and
\* whether it took the branch of the invalid session (forced sign-out)
At(at, u, forced) == [at |-> at, user |-> u, forced |-> forced]

EmitMutant(e) == Len(events) < MaxEvents /\ events' = Append(events, e)
\* the identity store notifies the subscriber, if there is one
Emit(e) ==
    IF subscribed
    THEN Len(events) < MaxEvents /\ events' = Append(events, e)
    ELSE UNCHANGED events

\* the useEffect body: setLoading(true), checkSession() up to its first
\* await, onAuthStateChange(...)
Mount ==
    /\ pc.at = "init"
    /\ loading' = TRUE
    /\ pc' = At("getSession", NoId, FALSE)
    /\ subscribed' = TRUE
    /\ UNCHANGED <<storeVars, lastOp, uid, user, profile, events, fetches, signedIn,
                   clientVars>>

\* checkSession: catch { setProfile(null) } finally { setLoading(false) }
CaughtMutant ==
    /\ profile' = NoProfile
    /\ pc' = At("done", pc.user, pc.forced)
    /\ UNCHANGED <<loading, user, uid, events>>
Caught ==
    /\ profile' = NoProfile
    /\ loading' = FALSE
    /\ pc' = At("done", pc.user, pc.forced)
    /\ UNCHANGED <<user, uid, events>>

\* checkSession: getSession() resolves (or throws)
CheckGetSession ==
    /\ pc.at = "getSession"
    /\ \/ Caught
       \/ /\ user' = uid
          /\ IF uid # NoId
             THEN /\ pc' = At("fetchProfile", uid, FALSE)
                  /\ UNCHANGED <<profile, loading>>
             ELSE /\ profile' = NoProfile
                  /\ loading' = FALSE
                  /\ pc' = At("done", NoId, FALSE)
          /\ UNCHANGED <<uid, events>>
    /\ UNCHANGED <<storeVars, lastOp, subscribed, fetches, signedIn, clientVars>>

\* checkSession: the profile select resolves: the row, or an error / no data
CheckFetchProfile ==
    /\ pc.at = "fetchProfile"
    /\ \/ Caught
       \/ /\ \E data \in {SelectProfile(pc.user, pc.user), NoProfile} :
                IF data = NoProfile
                THEN /\ pc' = At("signOut", pc.user, TRUE)
                     /\ UNCHANGED <<profile, loading>>
                ELSE /\ profile' = data
                     /\ loading' = FALSE
                     /\ pc' = At("done", pc.user, FALSE)
          /\ UNCHANGED <<user, uid, events>>
    /\ UNCHANGED <<storeVars, lastOp, subscribed, fetches, signedIn, clientVars>>

\* checkSession: await supabase.auth.signOut(); setProfile(null). signOut
\* answers { error }: on success the session is removed and the subscriber
\* is notified; on failure neither happens, and the answer is not looked at
CheckSignOut ==
    /\ pc.at = "signOut"
    /\ \/ Caught
       \/ /\ uid' = NoId
          /\ Emit(NoId)
          /\ profile' = NoProfile
          /\ loading' = FALSE
          /\ pc' = At("done", pc.user, TRUE)
          /\ UNCHANGED user
    /\ UNCHANGED <<storeVars, lastOp, subscribed, fetches, signedIn, clientVars>>

\* the onAuthStateChange callback, on the oldest undelivered notification
Deliver ==
    /\ subscribed
    /\ events # <<>>
    /\ user' = Head(events)
    /\ events' = Tail(events)
    /\ IF Head(events) # NoId
       THEN fetches' = fetches \cup {Head(events)} /\ UNCHANGED profile
       ELSE profile' = NoProfile /\ UNCHANGED fetches
    /\ UNCHANGED <<storeVars, lastOp, uid, loading, pc, subscribed, signedIn, clientVars>>

\* .then(({ data: profileData }) => setProfile(profileData)): a profile
\* select the callback started resolves: the row, or no data
ResolveFetch ==
    /\ \E u \in fetches :
        /\ \E data \in {SelectProfile(u, u), NoProfile} : profile' = data
        /\ fetches' = fetches \ {u}
    /\ UNCHANGED <<storeVars, lastOp, uid, user, loading, pc, subscribed, events,
                   signedIn, clientVars>>

\* the effect's cleanup: subscription.unsubscribe()
Teardown ==
    /\ subscribed
    /\ subscribed' = FALSE
    /\ events' = <<>>
    /\ UNCHANGED <<storeVars, lastOp, uid, user, profile, loading, pc, fetches,
                   signedIn, clientVars>>

\* useAuth.signIn succeeds: the browser holds a session of account u
SignIn ==
    /\ pc.at # "init"
    /\ \E u \in DOMAIN accounts :
        /\ uid' = u
        /\ Emit(u)
    /\ signedIn' = TRUE
    /\ UNCHANGED <<storeVars, lastOp, user, profile, loading, pc, subscribed, fetches,
                   clientVars>>

\* useAuth.signOut succeeds (Dashboard.handleLogout)
SignOut ==
    /\ pc.at # "init"
    /\ uid # NoId
    /\ uid' = NoId
    /\ Emit(NoId)
    /\ UNCHANGED <<storeVars, lastOp, user, profile, loading, pc, subscribed, fetches,
                   signedIn, clientVars>>

\* the identity store reports the session it holds (initial session, token
\* refreshed)
Notify ==
    /\ subscribed
    /\ Emit(uid)
    /\ UNCHANGED <<storeVars, lastOp, uid, user, profile, loading, pc, subscribed,
                   fetches, signedIn, clientVars>>

\* ------------------------------------------------------ the specifications
\* The store after the migration, with a ceo and a collaborator registered.
StoreInit ==
    /\ accounts = (1 :> CeoEmail) @@ (2 :> "ana@company.com")
    /\ nAccounts = 2
    /\ profiles = (1 :> HandleNewUser(CeoEmail, <<>>))
                  @@ (2 :> HandleNewUser("ana@company.com", <<"Ana">>))
    /\ sectors = (1 :> "Coordination") @@ (2 :> "HR")
    /\ nSectors = 2
    /\ tasks = EmptyFn
    /\ nTasks = 0
    /\ task_history = <<>>
    /\ now = 0
    /\ tx = NoTxs
    /\ lastOp = NoOp("init")

\* a Dashboard whose session/profile bridge has settled on the session uid
SettledBridge ==
    /\ user = uid
    /\ profile = SelectProfile(uid, uid)
    /\ loading = FALSE
    /\ pc = [at |-> "done", user |-> uid, forced |-> FALSE]
    /\ subscribed = TRUE
    /\ events = <<>>
    /\ fetches = {}
    /\ signedIn = FALSE

\* the Dashboard before its first fetch
ClientInit ==
    /\ cSectors = {}
    /\ cTasks = EmptyFn
    /\ selectedTask = NoId
    /\ observation = ""
    /\ showCloseDialog = FALSE
    /\ toast = "none"
    /\ busy = [form |-> FALSE, sector |-> FALSE, dash |-> TRUE]
    /\ calls = NoCalls
    /\ oTasks = EmptyFn

\* Spec: the write path of tasks, under raw requests of any actor.
Init ==
    /\ StoreInit
    /\ uid = NoId
    /\ SettledBridge
    /\ ClientInit

Next ==
    \/ InsertTask
    \/ UpdateTask
    \/ DeleteTask

Spec == Init /\ [][Next]_vars

\* SectorSpec: sectors and the tasks that refer to them, under raw requests
\* of any actor.
SectorNext ==
    \/ InsertSector
    \/ UpdateSector
    \/ DeleteSector
    \/ CreateTask
    \/ MoveTask
    \/ DeleteTask

SectorSpec == Init /\ [][SectorNext]_vars

\* ClientSpec: the Dashboard of one browser, signed in or not, and the
\* requests its handlers send.
ClientSpecInit ==
    /\ StoreInit
    /\ uid \in {NoId, 1, 2}
    /\ SettledBridge
    /\ ClientInit

ClientNext ==
    \/ CreateTask
    \/ FetchData
    \/ OpenCloseDialog
    \/ SetObservation
    \/ DismissDialog
    \/ HandleCloseTask
    \/ BeginHandleDeleteSector
    \/ HandleDeleteSector

ClientSpec == ClientSpecInit /\ [][ClientNext]_vars

\* HistorySpec: the ledger of status changes, from a store that already
\* holds one pending task, under raw requests of any actor.
SeedTaskId == MaxTasks + 1
SeedTask ==
    [title |-> "Payroll", description |-> NULL, type |-> "daily", sector_id |-> 2,
     deadline |-> ParseTimestamptz("2025-12-31T23:59"), urgency |-> "not_urgent",
     status |-> "pending", ceo_observation |-> NULL, updated_at |-> 0]
HistoryInit ==
    /\ accounts = (1 :> CeoEmail) @@ (2 :> "ana@company.com")
    /\ nAccounts = 2
    /\ profiles = (1 :> HandleNewUser(CeoEmail, <<>>))
                  @@ (2 :> HandleNewUser("ana@company.com", <<"Ana">>))
    /\ sectors = (1 :> "Coordination") @@ (2 :> "HR")
    /\ nSectors = 2
    /\ tasks = (SeedTaskId :> SeedTask)
    /\ nTasks = 0
    /\ task_history = <<>>
    /\ now = 0
    /\ tx = NoTxs
    /\ lastOp = NoOp("init")
    /\ uid = NoId
    /\ SettledBridge
    /\ ClientInit

HistoryNext ==
    \/ CreateTask
    \/ SetStatus
    \/ DeleteTask
    \/ InsertHistory
    \/ UpdateHistory
    \/ DeleteHistory

HistorySpec == HistoryInit /\ [][HistoryNext]_vars

\* TxSpec: two sessions updating tasks at the same time, from a store that
\* already holds one pending task.
TxNext ==
    \/ TxBegin
    \/ TxLock
    \/ TxBeforeTrigger
    \/ TxWrite
    \/ TxAfterTrigger
    \/ TxCommit

TxSpec == HistoryInit /\ [][TxNext]_vars

\* FormSpec: the task form of one browser.
FormNext ==
    \/ FetchData
    \/ BeginHandleSubmit
    \/ HandleSubmit

FormSpec == ClientSpecInit /\ [][FormNext]_vars

\* UiSpec: the task list and the sector management of the ceo's browser,
\* from a store that already holds one pending task; the ceo's account may be
\* deleted on the server while the browser stays open.
UiInit ==
    /\ accounts = (1 :> CeoEmail) @@ (2 :> "ana@company.com")
    /\ nAccounts = 2
    /\ profiles = (1 :> HandleNewUser(CeoEmail, <<>>))
                  @@ (2 :> HandleNewUser("ana@company.com", <<"Ana">>))
    /\ sectors = (1 :> "Coordination") @@ (2 :> "HR")
    /\ nSectors = 2
    /\ tasks = (SeedTaskId :> SeedTask)
    /\ nTasks = 0
    /\ task_history = <<>>
    /\ now = 0
    /\ tx = NoTxs
    /\ lastOp = NoOp("init")
    /\ uid = 1
    /\ SettledBridge
    /\ ClientInit

UiNext ==
    \/ FetchData
    \/ OpenCloseDialog
    \/ HandleCloseTask
    \/ HandleDeleteTask
    \/ BeginHandleCreateSector
    \/ HandleCreateSector
    \/ BeginHandleUpdateSector
    \/ HandleUpdateSector
    \/ BeginHandleDeleteSector
    \/ HandleDeleteSector
    \/ DeleteAccount

UiSpec == UiInit /\ [][UiNext]_vars

\* BusySpec: the components of the ceo's browser that keep a loading flag:
\* the Dashboard, the task form and the sector management.
BusyInit ==
    /\ StoreInit
    /\ uid = 1
    /\ SettledBridge
    /\ ClientInit

BusyNext ==
    \/ FetchData
    \/ BeginHandleSubmit
    \/ HandleSubmit
    \/ BeginHandleCreateSector
    \/ HandleCreateSector
    \/ BeginHandleUpdateSector
    \/ HandleUpdateSector
    \/ BeginHandleDeleteSector
    \/ HandleDeleteSector

BusySpec == BusyInit /\ [][BusyNext]_vars

\* every await of a handler resolves or throws, and the Dashboard's effect
\* runs fetchData after the first render
BusyFairSpec ==
    /\ BusyInit
    /\ [][BusyNext]_vars
    /\ WF_vars(FetchData)
    /\ WF_vars(HandleSubmit)
    /\ WF_vars(HandleCreateSector)
    /\ WF_vars(HandleUpdateSector)
    /\ WF_vars(HandleDeleteSector)

\* PairSpec: the task lists of two browsers of the ceo, from a store that
\* already holds one pending task.
PairNext ==
    \/ FetchData
    \/ OpenCloseDialog
    \/ HandleCloseTask
    \/ HandleDeleteTask
    \/ OtherFetchData
    \/ OtherHandleCloseTask

PairSpec == UiInit /\ [][PairNext]_vars

\* TaskSpec: the task operations of the ceo's browsers: the task form, the
\* close dialog and the delete button of one, the close dialog of a second.
TaskNext ==
    \/ FetchData
    \/ BeginHandleSubmit
    \/ HandleSubmit
    \/ OpenCloseDialog
    \/ HandleCloseTask
    \/ HandleDeleteTask
    \/ OtherFetchData
    \/ OtherHandleCloseTask

TaskSpec == BusyInit /\ [][TaskNext]_vars

\* GateSpec: the task list of the ceo's browser while the bridge goes on
\* receiving notifications, from a store that already holds one pending task.
GateNext ==
    \/ FetchData
    \/ OpenCloseDialog
    \/ DismissDialog
    \/ HandleCloseTask
    \/ HandleDeleteTask
    \/ Notify
    \/ SignOut
    \/ Deliver
    \/ ResolveFetch

GateSpec == UiInit /\ [][GateNext]_vars

\* ProfileSpec: accounts and profiles, from the store right after the
\* migration, under registrations and raw requests of any actor.
ProfileInit ==
    /\ accounts = EmptyFn
    /\ nAccounts = 0
    /\ profiles = EmptyFn
    /\ sectors = (1 :> "Coordination") @@ (2 :> "HR")
    /\ nSectors = 2
    /\ tasks = EmptyFn
    /\ nTasks = 0
    /\ task_history = <<>>
    /\ now = 0
    /\ tx = NoTxs
    /\ lastOp = NoOp("init")
    /\ uid = NoId
    /\ SettledBridge
    /\ ClientInit

ProfileNext ==
    \/ Register
    \/ DeleteAccount
    \/ UpdateProfile
    \/ InsertProfile
    \/ DeleteProfile

ProfileSpec == ProfileInit /\ [][ProfileNext]_vars

\* AuthSpec: the bridge of one browser, from its construction; the browser
\* may hold a session from an earlier visit, and accounts may be deleted on
\* the server.
AuthInit ==
    /\ StoreInit
    /\ uid \in {NoId, 1, 2}
    /\ user = NoId
    /\ profile = NoProfile
    /\ loading = TRUE
    /\ pc = At("init", NoId, FALSE)
    /\ subscribed = FALSE
    /\ events = <<>>
    /\ fetches = {}
    /\ signedIn = FALSE
    /\ ClientInit

AuthNext ==
    \/ Mount
    \/ CheckGetSession
    \/ CheckFetchProfile
    \/ CheckSignOut
    \/ Deliver
    \/ ResolveFetch
    \/ Teardown
    \/ SignIn
    \/ SignOut
    \/ Notify
    \/ DeleteAccount

AuthSpec == AuthInit /\ [][AuthNext]_vars

\* the effect runs after the first render, and every await of checkSession
\* resolves or throws
AuthFairSpec ==
    /\ AuthInit
    /\ [][AuthNext]_vars
    /\ WF_vars(Mount)
    /\ WF_vars(CheckGetSession)
    /\ WF_vars(CheckFetchProfile)
    /\ WF_vars(CheckSignOut)

\* ------------------------------------------------------------ the claims
Last(h) == h[Len(h)]

\* C1: every UPDATE of a task row whose status after the write differs from
\* the status before it appends exactly one task_history row, with that
\* task's id, the previous status and the new status; an UPDATE that leaves
\* the status as it was, or that touches no row, appends none.
C1_HistoryRowPerStatusChange ==
    [][ lastOp'.op = "update_task" =>
          IF lastOp'.rows = 1
          THEN LET t == lastOp'.id IN
               IF tasks'[t].status # tasks[t].status
               THEN /\ Len(task_history') = Len(task_history) + 1
                    /\ SubSeq(task_history', 1, Len(task_history)) = task_history
                    /\ Last(task_history').task_id = t
                    /\ Last(task_history').old_status = tasks[t].status
                    /\ Last(task_history').new_status = tasks'[t].status
               ELSE task_history' = task_history
          ELSE task_history' = task_history /\ tasks' = tasks ]_vars

\* a status-changing update has just been logged
C1_Witness ==
    /\ lastOp.op = "update_task"
    /\ lastOp.rows = 1
    /\ task_history # <<>>
    /\ Last(task_history).task_id = lastOp.id
    /\ Last(task_history).new_status = tasks[lastOp.id].status
    /\ Last(task_history).old_status = "delivered"

\* the close of a pending task by a ceo through handleCloseTask, applied by
\* the store
ClosesPending ==
    /\ lastOp'.via = "handleCloseTask"
    /\ lastOp'.op = "update_task"
    /\ lastOp'.result = "ok"
    /\ IsCEO(uid)
    /\ selectedTask \in DOMAIN tasks
    /\ tasks[selectedTask].status = "pending"

\* C2 as stated: closing a pending task with status S and observation text
\* O leaves the task with status S, ceo_observation O and updated_at the
\* store's time, and appends the one row {pending, S, O}.
C2_AsStated ==
    [][ ClosesPending =>
          LET t == selectedTask
              S == lastOp'.arg[1]
              O == observation
          IN  /\ tasks'[t].status = S
              /\ tasks'[t].ceo_observation = O
              /\ tasks'[t].updated_at = now'
              /\ task_history' = Append(task_history,
                     [task_id |-> t, old_status |-> "pending", new_status |-> S,
                      observation |-> O]) ]_vars

\* C2, amended: the same, with the observation stored and logged being O
\* when O is not empty and NULL when O is the empty text.
C2_CloseTask ==
    [][ ClosesPending =>
          LET t == selectedTask
              S == lastOp'.arg[1]
              O == IF observation = "" THEN NULL ELSE observation
          IN  /\ S \in {"delivered", "not_delivered"}
              /\ tasks'[t].status = S
              /\ tasks'[t].ceo_observation = O
              /\ tasks'[t].updated_at = now'
              /\ task_history' = Append(task_history,
                     [task_id |-> t, old_status |-> "pending", new_status |-> S,
                      observation |-> O]) ]_vars

\* a ceo has just closed a task as delivered, with an observation
C2_Witness ==
    /\ lastOp.via = "handleCloseTask"
    /\ lastOp.result = "ok"
    /\ lastOp.rows = 1
    /\ IsCEO(uid)
    /\ tasks[lastOp.id].status = "delivered"
    /\ tasks[lastOp.id].ceo_observation = "done early"
    /\ Last(task_history) = [task_id |-> lastOp.id, old_status |-> "pending",
                             new_status |-> "delivered", observation |-> "done early"]

MutatingOps == {"insert_sector", "update_sector", "delete_sector",
                "insert_task", "update_task", "delete_task"}

\* an actor without the ceo role has just sent a mutation of sectors or tasks
NonCeoMutation == lastOp'.op \in MutatingOps /\ ~IsCEO(lastOp'.actor)

C4_RoleFixedAtRegistration ==
    \A id \in DOMAIN profiles :
        profiles[id].role = IF accounts[id] = "ceo@company.com" THEN "ceo"
                            ELSE "collaborator"

\* C5: the profile of a newly registered account has role ceo exactly when
\* the account's email is 'ceo@company.com', and collaborator otherwise.
C5_RoleByEmail ==
    [][ lastOp'.op = "register" =>
          LET id == lastOp'.id IN
          /\ id \in DOMAIN profiles'
          /\ profiles'[id].role \in {"ceo", "collaborator"}
          /\ profiles'[id].role = "ceo" <=> accounts'[id] = "ceo@company.com" ]_vars

\* the reserved address and a near miss of it have both been registered
C5_Witness ==
    /\ lastOp.op = "register"
    /\ accounts[lastOp.id] = "CEO@company.com"
    /\ profiles[lastOp.id].role = "collaborator"
    /\ \E id \in DOMAIN profiles :
          accounts[id] = "ceo@company.com" /\ profiles[id].role = "ceo"

\* C6: accounts and profiles correspond one to one in every state; creating
\* an account inserts, in the same write, the one profile row with the
\* account's id and the name given at registration (the empty string when
\* none was given), and leaves the other profiles alone; deleting an
\* account removes its profile.
C6_OneProfilePerAccount ==
    /\ [](DOMAIN profiles = DOMAIN accounts)
    /\ [][ lastOp'.op = "register" =>
             LET id == lastOp'.id IN
             /\ id \notin DOMAIN accounts
             /\ DOMAIN profiles' = DOMAIN profiles \cup {id}
             /\ profiles'[id].full_name =
                    IF lastOp'.arg = <<>> THEN "" ELSE lastOp'.arg[1]
             /\ \A o \in DOMAIN profiles : profiles'[o] = profiles[o] ]_vars
    /\ [][ lastOp'.op = "delete_account" =>
             /\ lastOp'.id \notin DOMAIN profiles'
             /\ lastOp'.id \notin DOMAIN accounts' ]_vars

\* an account registered without a name stands next to another account
C6_Witness ==
    /\ lastOp.op = "register"
    /\ lastOp.arg = <<>>
    /\ profiles[lastOp.id].full_name = ""
    /\ Cardinality(DOMAIN accounts) = 2

\* C7: a ceo's delete of a sector that a task refers to fails with an
\* integrity error and leaves sectors and tasks as they were; a ceo's delete
\* of a sector no task refers to removes that sector alone; and in every
\* state every task's sector_id is the id of an existing sector.
C7_SectorDeleteRestricted ==
    /\ [](\A t \in DOMAIN tasks : tasks[t].sector_id \in DOMAIN sectors)
    /\ [][ (/\ lastOp'.op = "delete_sector"
            /\ IsCEO(lastOp'.actor)
            /\ lastOp'.id \in DOMAIN sectors
            /\ lastOp'.result # "network") =>
             LET s == lastOp'.id IN
             IF \E t \in DOMAIN tasks : tasks[t].sector_id = s
             THEN /\ lastOp'.result = "fk_violation"
                  /\ sectors' = sectors
                  /\ tasks' = tasks
             ELSE /\ lastOp'.result = "ok"
                  /\ DOMAIN sectors' = DOMAIN sectors \ {s}
                  /\ \A o \in DOMAIN sectors' : sectors'[o] = sectors[o]
                  /\ tasks' = tasks ]_vars

\* a ceo's delete of a sector with a task has just been refused
C7_Witness ==
    /\ lastOp.op = "delete_sector"
    /\ lastOp.result = "fk_violation"
    /\ IsCEO(lastOp.actor)
    /\ lastOp.id \in DOMAIN sectors
    /\ \E t \in DOMAIN tasks : tasks[t].sector_id = lastOp.id

\* the bridge is at rest: the startup check is over, no notification waits
\* for delivery and no profile select is in flight
Settled == pc.at = "done" /\ subscribed /\ events = <<>> /\ fetches = {}

\* C8: when the startup check found a session without a usable profile
\* (no row, or the select failed) and nobody signed in afterwards, the
\* bridge comes to rest signed out: user = null and profile = null.
C8_InvalidSessionEndsSignedOut ==
    (Settled /\ pc.forced /\ ~signedIn) => (user = NoId /\ profile = NoProfile)

\* C9: loading becomes false after the initial check and stays false, on
\* every path of the check; once the check is over it is never true again.
C9_LoadingSettles ==
    /\ <>[](loading = FALSE)
    /\ [](pc.at = "done" => loading = FALSE)
    /\ [][pc.at = "done" => loading' = FALSE]_vars

\* the check is over after a forced sign-out, and loading is false
C9_Witness == pc.at = "done" /\ pc.forced /\ loading = FALSE /\ uid = NoId

\* C10: every UPDATE of a task row stores the store's current time as
\* updated_at, and that value is not before the row's previous updated_at.
C10_UpdatedAtAdvances ==
    [][ (lastOp'.op = "update_task" /\ lastOp'.rows = 1) =>
          LET t == lastOp'.id IN
          /\ tasks'[t].updated_at = now'
          /\ tasks'[t].updated_at >= tasks[t].updated_at ]_vars

\* C11: every insert and every update of a task leaves the row with the
\* store's clock value at the write as updated_at, whatever updated_at the
\* request carried.
C11_UpdatedAtSetByStore ==
    [][ (lastOp'.op \in {"insert_task", "update_task"} /\ lastOp'.rows = 1) =>
          tasks'[lastOp'.id].updated_at = now' ]_vars

\* a task the form has just created
Created ==
    /\ lastOp'.via = "handleSubmit"
    /\ lastOp'.result = "ok"

C13_TriggerSoleSource ==
    [][ Len(task_history') > Len(task_history) =>
          /\ lastOp'.op = "update_task"
          /\ lastOp'.rows = 1
          /\ task_history' = Append(task_history,
                 [task_id |-> lastOp'.id,
                  old_status |-> tasks[lastOp'.id].status,
                  new_status |-> tasks'[lastOp'.id].status,
                  observation |-> tasks'[lastOp'.id].ceo_observation])
          /\ tasks[lastOp'.id].status # tasks'[lastOp'.id].status ]_vars

\* C14: no request of any actor changes or removes an existing
\* task_history row: the rows that were there stay, in order and unchanged,
\* except that the delete of a task removes exactly that task's rows.
C14_HistoryAppendOnly ==
    [][ IF lastOp'.op = "delete_task" /\ lastOp'.rows = 1
        THEN task_history' = SelectSeq2(task_history, lastOp'.id)
        ELSE /\ Len(task_history') >= Len(task_history)
             /\ SubSeq(task_history', 1, Len(task_history)) = task_history ]_vars

\* a ceo has tried to rewrite and to remove a row of the ledger, and the
\* row is still there
C14_Witness ==
    /\ lastOp.op \in {"update_history", "delete_history"}
    /\ IsCEO(lastOp.actor)
    /\ lastOp.id \in 1..Len(task_history)
    /\ lastOp.rows = 0

\* C15: the delete of a task removes that task's task_history rows in the
\* same write and leaves the rows of other tasks as they were; in every
\* state every task_history row belongs to an existing task.
C15_HistoryCascade ==
    /\ [](\A i \in 1..Len(task_history) : task_history[i].task_id \in DOMAIN tasks)
    /\ [][ (lastOp'.op = "delete_task" /\ lastOp'.rows = 1) =>
             /\ lastOp'.id \notin DOMAIN tasks'
             /\ \A i \in 1..Len(task_history') :
                    task_history'[i].task_id # lastOp'.id
             /\ task_history' = SelectSeq2(task_history, lastOp'.id) ]_vars

\* a task with a history row has just been deleted, and the row of another
\* task is still there
C15_Witness ==
    /\ lastOp.op = "delete_task"
    /\ lastOp.rows = 1
    /\ lastOp.id \notin DOMAIN tasks
    /\ Len(task_history) = 1
    /\ task_history[1].task_id \in DOMAIN tasks
    /\ task_history[1].task_id # lastOp.id

\* C16: whenever the status of a task changes in what another session can
\* read, the same step adds the task_history row of that change and gives
\* the row the updated_at stamped by the statement that changed it.
C16_UpdateAtomic ==
    [][ \A t \in DOMAIN tasks \cap DOMAIN tasks' :
          tasks'[t].status # tasks[t].status =>
            \E s \in Sessions :
              /\ tx[s].step = "logged"
              /\ tx[s].id = t
              /\ tasks'[t].updated_at = tx[s].at
              /\ task_history' = Append(task_history,
                     [task_id |-> t, old_status |-> tasks[t].status,
                      new_status |-> tasks'[t].status,
                      observation |-> tasks'[t].ceo_observation]) ]_vars

\* a status change has just become visible together with its history row
C16_Witness ==
    /\ lastOp.op = "update_task"
    /\ lastOp.via = "tx"
    /\ lastOp.rows = 1
    /\ InFlight # {}
    /\ task_history # <<>>
    /\ Last(task_history).task_id = lastOp.id
    /\ Last(task_history).new_status = tasks[lastOp.id].status
    /\ tasks[lastOp.id].status # "pending"

\* C17: every history row the trigger writes carries as old_status the
\* status the task had in the store immediately before that write, also
\* when the client that sent the update displayed another status.
C17_OldStatusIsStored ==
    [][ Len(task_history') > Len(task_history) =>
          LET r == Last(task_history') IN
          /\ Len(task_history') = Len(task_history) + 1
          /\ r.task_id \in DOMAIN tasks
          /\ r.old_status = tasks[r.task_id].status
          /\ r.new_status = tasks'[r.task_id].status ]_vars

\* two clients both saw the task pending; the second update to commit was
\* logged with the status the first one committed
C17_Witness ==
    /\ lastOp.op = "update_task"
    /\ lastOp.via = "tx"
    /\ lastOp.rows = 1
    /\ lastOp.arg = <<"pending">>
    /\ Len(task_history) = 2
    /\ task_history[1].task_id = lastOp.id
    /\ task_history[1].old_status = "pending"
    /\ task_history[2].task_id = lastOp.id
    /\ task_history[2].old_status = task_history[1].new_status
    /\ task_history[2].old_status # "pending"

\* the handlers of the browser that send a mutation
ClientVias ==
    {"handleSubmit", "handleCloseTask", "handleDeleteTask", "handleCreateSector",
     "handleUpdateSector", "handleDeleteSector"}

\* C18: whenever a mutation a handler of the browser sent reaches the store
\* from an actor the table's policy does not admit, the store answers
\* permission denied and the handler shows the failure notification, never
\* the success one.
C18_DeniedIsSurfaced ==
    [][ ( /\ lastOp'.via \in ClientVias
          /\ lastOp'.op # "none"
          /\ lastOp'.result # "network"
          /\ ~IsCEO(lastOp'.actor) )
        => ( /\ lastOp'.result = "denied"
             /\ toast' = "error" ) ]_vars

\* C19: every store call of the browser that fails, a mutation of a handler
\* or the selects of fetchData, ends with the failure notification shown; a
\* failed fetch is not shown as empty lists without a notification.
C19_FailureIsNotified ==
    [][ ( /\ lastOp'.via \in ClientVias \cup {"fetchData"}
          /\ lastOp'.result \notin {"ok", "none"} )
        => toast' = "error" ]_vars

\* the loading flag of the component a handler belongs to
FlagOf(via) ==
    CASE via = "handleSubmit" -> "form"
      [] via = "fetchData" -> "dash"
      [] OTHER -> "sector"

\* C20: a handler that set its component's loading flag leaves it false when
\* its store call has resolved or failed, whatever the outcome; a flag is
\* true only while its handler awaits the store; and no flag stays true for
\* ever.
C20_BusyIsReset ==
    /\ [][ ( /\ lastOp'.via \in ClientVias \cup {"fetchData"}
              /\ lastOp'.op # "none" )
            => ~busy'[FlagOf(lastOp'.via)] ]_vars
    /\ [](busy.form <=> calls.form # <<>>)
    /\ [](busy.sector <=> calls.sector # <<>>)
    /\ []<>(~busy.form)
    /\ []<>(~busy.sector)
    /\ []<>(~busy.dash)

\* the form was submitted without a sector, the store refused the insert,
\* and the form is no longer loading
C20_Witness ==
    /\ lastOp.via = "handleSubmit"
    /\ lastOp.result = "invalid_input"
    /\ toast = "error"
    /\ ~busy.form
    /\ calls.form = <<>>

\* the step is the callback's, on the notification at the head of events
Delivered == subscribed /\ subscribed' /\ events # <<>> /\ events' = Tail(events)
\* the step is the resolution of a profile select the callback started
Resolved == fetches' # fetches /\ fetches' \subseteq fetches

\* C21: the callback sets user to the notification's user; for a
\* notification with a user it starts a select of that user's profile, and
\* when that select resolves the profile is the row it returned or, if it
\* failed, the profile held before, with user and session untouched; for a
\* notification without user it sets profile to null.
C21_CallbackTolerant ==
    [][ /\ Delivered =>
              /\ user' = Head(events)
              /\ uid' = uid
              /\ IF Head(events) # NoId
                 THEN Head(events) \in fetches' /\ profile' = profile
                 ELSE profile' = NoProfile /\ fetches' = fetches
        /\ Resolved =>
              /\ user' = user
              /\ uid' = uid
              /\ events' = events
              /\ \/ profile' = profile
                 \/ /\ profile' # NoProfile
                    /\ profile'.id \in fetches \ fetches' ]_vars

\* C22: the subscription is registered once, by the effect at startup, and
\* never again; it is cancelled only by the effect's cleanup, a step of its
\* own that happens at most once since nothing registers again; and once
\* cancelled no notification waits for the callback or reaches it: user
\* changes no more after the startup check.
C22_OneSubscription ==
    /\ [](pc.at = "init" => ~subscribed)
    /\ [][ pc.at # "init" => pc'.at # "init" ]_vars
    /\ [][ (~subscribed /\ subscribed') => (pc.at = "init" /\ pc'.at # "init") ]_vars
    /\ [][ (subscribed /\ ~subscribed') =>
              UNCHANGED <<uid, user, profile, loading, pc, fetches>> ]_vars
    /\ [](pc.at # "init" /\ ~subscribed => events = <<>>)
    /\ [][ (pc.at = "done" /\ ~subscribed) => (user' = user /\ ~subscribed') ]_vars

\* after the cleanup somebody signed in on this browser and the bridge did
\* not hear of it
C22_Witness ==
    /\ pc.at = "done"
    /\ ~subscribed
    /\ signedIn
    /\ events = <<>>
    /\ uid # NoId
    /\ user # uid

\* C23: what an actor reads of profiles is its own row and nothing else,
\* whatever the other rows are; and a request of an actor on profiles,
\* update, insert or delete, leaves every row of another account as it was
\* and creates none for another account.
C23_ProfilesIsolated ==
    /\ [](\A a \in Actors :
            /\ SelectProfiles(a) = [p \in DOMAIN profiles \cap {a} |-> profiles[p]]
            /\ \A b \in AccountIds \ {a} : SelectProfile(a, b) = NoProfile)
    /\ [][ lastOp'.op \in {"update_profile", "insert_profile", "delete_profile"} =>
              \A b \in AccountIds \ {lastOp'.actor} :
                  /\ b \in DOMAIN profiles' <=> b \in DOMAIN profiles
                  /\ b \in DOMAIN profiles => profiles'[b] = profiles[b] ]_vars

\* an account that has a profile has just sent an update of the profile of
\* another account, and it matched no row
C23_Witness ==
    /\ lastOp.op = "update_profile"
    /\ lastOp.actor # lastOp.id
    /\ lastOp.actor \in DOMAIN profiles
    /\ lastOp.id \in DOMAIN profiles
    /\ lastOp.rows = 0

\* C24: in every state of the bridge isCEO is true exactly when profile is
\* not null and its role is ceo; it is false whenever profile is null.
C24_IsCEOIffCeoProfile ==
    /\ isCEO <=> (profile # NoProfile /\ profile.role = "ceo")
    /\ profile = NoProfile => ~isCEO
    /\ profile # NoProfile => profile.role \in Roles

\* the ceo's account is signed in, the startup check is over and the bridge
\* holds no profile: a profile select of the callback failed
C24_Witness ==
    /\ pc.at = "done"
    /\ user = 1
    /\ uid = 1
    /\ 1 \in DOMAIN profiles
    /\ profiles[1].role = "ceo"
    /\ profile = NoProfile
    /\ ~isCEO

\* the tasks of sector s in the client's task list
ListedTasksOf(s) == {t \in DOMAIN cTasks : cTasks[t].sector_id = s}

\* C25: handleDeleteSector sends a delete only after a confirm() that was
\* accepted; the confirm's message states the number of the sector's tasks
\* in the client's list when there is at least one; a declined confirm sends
\* nothing and leaves the store, the loading flag and the lists as they
\* were; an accepted one sends the delete whatever the count, and for a
\* sector that has tasks in the store the store refuses it.
C25_DeleteSectorConfirm ==
    [][ /\ lastOp'.op = "confirm" =>
              /\ lastOp'.arg[1].N = Cardinality(ListedTasksOf(lastOp'.id))
              /\ (lastOp'.arg[1].text = "This sector has N task(s). Are you sure")
                    <=> ListedTasksOf(lastOp'.id) # {}
              /\ UNCHANGED <<storeVars, cSectors, cTasks, toast>>
              /\ IF lastOp'.result = "declined"
                 THEN UNCHANGED <<busy, calls>>
                 ELSE /\ busy'.sector
                      /\ calls'.sector =
                            <<SectorCall("handleDeleteSector", lastOp'.id, NULL)>>
        /\ ( /\ calls'.sector # calls.sector
             /\ calls'.sector # <<>>
             /\ calls'.sector[1].via = "handleDeleteSector" ) =>
              (lastOp'.op = "confirm" /\ lastOp'.result = "confirmed")
        /\ lastOp'.via = "handleDeleteSector" =>
              /\ calls.sector = <<SectorCall("handleDeleteSector", lastOp'.id, NULL)>>
              /\ ( /\ lastOp'.result # "network"
                   /\ \E t \in DOMAIN tasks : tasks[t].sector_id = lastOp'.id ) =>
                    /\ sectors' = sectors
                    /\ lastOp'.result \in {"fk_violation", "ok"}
                    /\ lastOp'.rows = 0
                    /\ IsCEO(lastOp'.actor) =>
                          (lastOp'.result = "fk_violation" /\ toast' = "error") ]_vars

\* the ceo accepted the confirm that counted the sector's tasks, and the
\* store refused the delete
C25_Witness ==
    /\ lastOp.via = "handleDeleteSector"
    /\ lastOp.result = "fk_violation"
    /\ ListedTasksOf(lastOp.id) # {}
    /\ toast = "error"
    /\ ~busy.sector
    /\ lastOp.id \in DOMAIN sectors

\* C26: in every state of the bridge a profile that is held is the profile
\* of the current user: profile # null implies user # null and
\* profile.id = user.id.
C26_ProfileOfCurrentUser ==
    profile # NoProfile => (user # NoId /\ profile.id = user)

\* C27: no operation of a client changes the stored status of a task that
\* is delivered or not_delivered, and none sets a status to pending, also
\* with two browsers of the ceo whose lists were fetched before the other's
\* write.
C27_ClosedIsTerminal ==
    [][ \A t \in DOMAIN tasks \cap DOMAIN tasks' :
          /\ tasks[t].status \in {"delivered", "not_delivered"} =>
                tasks'[t].status = tasks[t].status
          /\ tasks'[t].status = "pending" => tasks[t].status = "pending" ]_vars

\* C27, as the code has it: no operation of a client sets a status to
\* pending; a client changes a stored status only through the close dialog,
\* to delivered or not_delivered, for the task the dialog was opened on or,
\* in the second browser, a task its list displays as pending; what the
\* store holds at that moment is not tested, so a browser whose list is
\* stale does change a closed task to the other closed status.
C27_ClosesWhatIsDisplayedPending ==
    [][ \A t \in DOMAIN tasks \cap DOMAIN tasks' :
          /\ tasks'[t].status = "pending" => tasks[t].status = "pending"
          /\ tasks'[t].status # tasks[t].status =>
                /\ tasks'[t].status \in {"delivered", "not_delivered"}
                /\ lastOp'.id = t
                /\ lastOp'.via \in {"handleCloseTask", "otherHandleCloseTask"}
                /\ lastOp'.via = "handleCloseTask" =>
                      (showCloseDialog /\ selectedTask = t)
                /\ lastOp'.via = "otherHandleCloseTask" =>
                      (t \in DOMAIN oTasks /\ oTasks[t].status = "pending") ]_vars

\* the second browser, whose list still showed the task pending, has just
\* changed a delivered task to not_delivered
C27_Witness ==
    /\ lastOp.via = "otherHandleCloseTask"
    /\ lastOp.result = "ok"
    /\ lastOp.id \in DOMAIN tasks
    /\ tasks[lastOp.id].status = "not_delivered"
    /\ Len(task_history) = 2
    /\ task_history[2].task_id = lastOp.id
    /\ task_history[2].old_status = "delivered"
    /\ task_history[2].new_status = "not_delivered"

\* the history rows of task t, in insertion order
RowsOf(t) == SelectSeq(task_history, LAMBDA r : r.task_id = t)

\* C28: under the task operations of the clients, the history rows of every
\* existing task form a chain: the first starts from pending, each next
\* starts from the status the previous one ended in, no row has a null
\* old_status or the same old and new status, and the last ends in the
\* task's current status; a task without rows is pending.
C28_HistoryChain ==
    \A t \in DOMAIN tasks :
        LET h == RowsOf(t) IN
        /\ h = <<>> => tasks[t].status = "pending"
        /\ h # <<>> => /\ h[1].old_status = "pending"
                       /\ Last(h).new_status = tasks[t].status
        /\ \A i \in 1..Len(h) :
              /\ h[i].old_status \in Statuses
              /\ h[i].old_status # h[i].new_status
              /\ i > 1 => h[i].old_status = h[i - 1].new_status

\* a task created through the form was closed, one way by the first
\* browser and then the other way by the second: its chain has two rows
C28_Witness ==
    \E t \in DOMAIN tasks :
        /\ lastOp.via = "otherHandleCloseTask"
        /\ lastOp.id = t
        /\ Len(RowsOf(t)) = 2
        /\ RowsOf(t)[1].old_status = "pending"
        /\ RowsOf(t)[2].old_status = RowsOf(t)[1].new_status
        /\ RowsOf(t)[2].new_status = tasks[t].status

\* C29: the Dashboard sends an insert, update or delete to the store only
\* in a state where isCEO is true: with a null profile or a collaborator's
\* it sends none.
C29_MutationsOnlyWhenCEO ==
    [][ ( /\ lastOp'.via \in ClientVias
          /\ lastOp'.op # "none"
          /\ UNCHANGED <<uid, bridgeVars>> ) => isCEO ]_vars

\* C30: a close-task update that the store rejects or that fails leaves the
\* close dialog (selectedTask, observation, showCloseDialog), the fetched
\* lists (onTaskUpdate is not called), the task row and task_history as they
\* were; handleCloseTask closes the dialog only on success, and then
\* selectedTask and observation are cleared; with no selected task it sends
\* no request.
C30_CloseTaskFrame ==
    [][ ( /\ lastOp'.via = "handleCloseTask"
          /\ UNCHANGED <<uid, bridgeVars>> ) =>
        /\ ( lastOp'.op # "none" /\ (lastOp'.result # "ok" \/ lastOp'.rows = 0) ) =>
               UNCHANGED <<selectedTask, observation, showCloseDialog,
                           cSectors, cTasks, tasks, task_history>>
        /\ ( showCloseDialog /\ ~showCloseDialog' ) =>
               /\ lastOp'.result = "ok" /\ lastOp'.rows = 1
               /\ selectedTask' = NoId /\ observation' = ""
        /\ ( selectedTask = NoId ) =>
               lastOp'.op = "none" /\ UNCHANGED storeVars ]_vars

====
